---- MODULE Spec2Model ----
(***************************************************************************)
(* A model of movies.py: the title-keyed deduplication of scanned videos   *)
(* (unique_videos), the scan cache (get_videos), the locked metadata cache *)
(* with its concurrent batch lookup (search_movie, get_imdb_metadata) and  *)
(* the report (the driver's sort and print_metadata).                      *)
(*                                                                         *)
(* Each part of the program has a specification of its own over the same   *)
(* variables; a specification leaves the other parts' variables alone.     *)
(***************************************************************************)
EXTENDS Integers, Sequences, FiniteSets, TLC

VARIABLES
    fsize,        \* the filesystem: what Path(name).stat().st_size gives
    videos,       \* unique_videos: its argument
    unique,       \* unique_videos: the dict title -> video
    ui,           \* unique_videos: position of the for loop
    upc,          \* unique_videos: "loop", "done" (returned) or "raised"
    uresult,      \* unique_videos: the returned set
    pass,         \* 1: a first application, 2: applied to its own result
    first,        \* the first application's result, kept for the second
    scanResult,   \* the filesystem: what scan_videos(dir) gives
    videosStore,  \* the shelve '.videos.cache.shelve': key -> VideoSet
    storeOwner,   \* history: the directory list whose call wrote each key
    history,      \* history: the calls of get_videos so far, in order
    batch,        \* get_imdb_metadata: its videos, in iteration order
    tasks,        \* the _search_movie call of each video: where it is, its locals
    lock,         \* meta_cache_lock: 0 when free, else the task holding it
    metaStore,    \* the shelve '.meta.cache.shelve': title -> movie
    order,        \* the tasks in the order they completed
    gpc,          \* get_imdb_metadata: "map", "zip", "done" or "aborted"
    gi,           \* get_imdb_metadata: position of the zip
    mapped,       \* the list thread_map returned
    yielded,      \* the pairs get_imdb_metadata has yielded
    saved,        \* history: title -> the movie last saved under it
    failedQ,      \* history: the titles a lookup has failed for
    fetched,      \* history: <<title, movie>> for each movie get_movie gave
    metadata,     \* the driver's list of (video, meta) pairs
    unsorted,     \* history: the list as get_imdb_metadata gave it
    rpc,          \* the report: "fetched", "sorted", "printed" or "raised"
    table         \* print_metadata: the rows handed to tabulate, as printed

dedupVars == <<videos, unique, ui, upc, uresult, pass, first>>
scanVars == <<scanResult, videosStore, storeOwner, history>>
metaVars == <<batch, tasks, lock, metaStore, order, gpc, gi, mapped, yielded,
              saved, failedQ, fetched>>

reportVars == <<metadata, unsorted, rpc, table>>

vars == <<fsize, dedupVars, scanVars, metaVars, reportVars>>

\* What fsize holds for a file that is gone: stat() raises.
Missing == -1

----------------------------------------------------------------------------
(* Video descriptors, as scan_videos builds them: title and year are parsed *)
(* from the file's name. A year of 0 stands for None: the program only ever *)
(* tests a year for truth.                                                  *)

V1 == [title |-> "Foo", year |-> 2010, name |-> "/a/Foo.2010.mkv"]
V2 == [title |-> "Foo", year |-> 2010, name |-> "/b/Foo.2010.avi"]
V3 == [title |-> "Foo 2010", year |-> 0, name |-> "/b/Foo 2010.mkv"]
V4 == [title |-> "Bar", year |-> 0, name |-> "/a /b/Bar.mkv"]

Catalogue == {V1, V2, V3, V4}
Names == {v.name : v \in Catalogue}
Sizes == {10, 20}

\* The longest input of unique_videos the model draws.
MaxLen == 3

Range(s) == {s[k] : k \in DOMAIN s}

SeqsUpTo(S, n) == UNION {[1..k -> S] : k \in 0..n}

----------------------------------------------------------------------------
(* The parts of the program a specification does not run stay as they are   *)
(* before their first call.                                                 *)

DedupIdle ==
    /\ videos = <<>>
    /\ unique = <<>>
    /\ ui = 1
    /\ upc = "idle"
    /\ uresult = {}
    /\ pass = 1
    /\ first = {}

ScanIdle ==
    /\ scanResult = <<>>
    /\ videosStore = <<>>
    /\ storeOwner = <<>>
    /\ history = <<>>

MetaIdle ==
    /\ batch = <<>>
    /\ tasks = <<>>
    /\ lock = 0
    /\ metaStore = <<>>
    /\ order = <<>>
    /\ gpc = "idle"
    /\ gi = 1
    /\ mapped = <<>>
    /\ yielded = <<>>
    /\ saved = <<>>
    /\ failedQ = {}
    /\ fetched = {}

ReportIdle ==
    /\ metadata = <<>>
    /\ unsorted = <<>>
    /\ rpc = "idle"
    /\ table = <<>>

----------------------------------------------------------------------------
(* unique_videos and video_size                                             *)

\* video_size(video): Path(video.name).stat().st_size
video_size(video) == fsize[video.name]

\* d[key] = value
DictSet(d, key, value) ==
    [k \in (DOMAIN d) \cup {key} |-> IF k = key THEN value ELSE d[k]]

\* A dict keyed by the file name instead of the title.
UniqueKeyByName(video) == video.name

\* The key of the dict: video.title
UniqueKey(video) == video.title

\* max keeping the smaller of the two.
MaxBySizeKeepsSmaller(video, other) ==
    IF video_size(other) < video_size(video) THEN other ELSE video

\* max returning the last of the maximal arguments.
MaxBySizeLastOnTie(video, other) ==
    IF video_size(other) >= video_size(video) THEN other ELSE video

\* max(video, other, key=video_size): the first of the maximal arguments
MaxBySize(video, other) ==
    IF video_size(other) > video_size(video) THEN other ELSE video

\* A loop in which a failed stat() is not noticed.
UniqueLoopNeverRaises(d, video) == FALSE

\* One iteration of the for loop raises: other is not None and stat() fails
\* in video_size for either argument of max.
UniqueLoopRaises(d, video) ==
    /\ UniqueKey(video) \in DOMAIN d
    /\ \/ video_size(video) = Missing
       \/ video_size(d[UniqueKey(video)]) = Missing

\* One iteration of the for loop that does not raise: the dict afterwards.
UniqueLoopBody(d, video) ==
    IF UniqueKey(video) \notin DOMAIN d
    THEN DictSet(d, UniqueKey(video), video)
    ELSE DictSet(d, UniqueKey(video), MaxBySize(video, d[UniqueKey(video)]))

\* for video in videos: ...
UniqueIter ==
    /\ upc = "loop"
    /\ ui <= Len(videos)
    /\ IF UniqueLoopRaises(unique, videos[ui])
       THEN /\ upc' = "raised"
            /\ UNCHANGED <<unique, ui>>
       ELSE /\ unique' = UniqueLoopBody(unique, videos[ui])
            /\ ui' = ui + 1
            /\ upc' = upc
    /\ UNCHANGED <<fsize, videos, uresult, pass, first, scanVars, metaVars, reportVars>>

\* return set(unique.values())
UniqueReturn ==
    /\ upc = "loop"
    /\ ui > Len(videos)
    /\ uresult' = Range(unique)
    /\ upc' = "done"
    /\ UNCHANGED <<fsize, videos, unique, ui, pass, first, scanVars, metaVars, reportVars>>

\* All the orders a set can be iterated in.
Orders(S) ==
    {s \in [1..Cardinality(S) -> S] : \A a, b \in DOMAIN s : a # b => s[a] # s[b]}

\* unique_videos(unique_videos(x)): the returned set, iterated in any order,
\* is the argument of a second application.
UniqueAgain ==
    /\ upc = "done"
    /\ pass = 1
    /\ \E s \in Orders(uresult) : videos' = s
    /\ first' = uresult
    /\ pass' = 2
    /\ unique' = <<>>
    /\ ui' = 1
    /\ upc' = "loop"
    /\ uresult' = {}
    /\ UNCHANGED <<fsize, scanVars, metaVars, reportVars>>

InitDedup ==
    /\ fsize \in [Names -> Sizes \cup {Missing}]
    /\ videos \in SeqsUpTo(Catalogue, MaxLen)
    /\ unique = <<>>
    /\ ui = 1
    /\ upc = "loop"
    /\ uresult = {}
    /\ pass = 1
    /\ first = {}
    /\ ScanIdle
    /\ MetaIdle
    /\ ReportIdle

NextDedup ==
    \/ UniqueIter
    \/ UniqueReturn
    \/ UniqueAgain

SpecDedup == InitDedup /\ [][NextDedup]_vars

----------------------------------------------------------------------------
(* Claims about unique_videos                                               *)

TitlesOf(S) == {v.title : v \in S}

\* C1: when unique_videos returns, the set holds exactly one descriptor for
\* each title of the input, only descriptors of the input, and for each title
\* the one kept is at least as large as every other input descriptor of that
\* title.
C1_UniqueKeepsLargest ==
    (upc = "done") =>
        /\ uresult \subseteq Range(videos)
        /\ TitlesOf(uresult) = TitlesOf(Range(videos))
        /\ \A v, w \in uresult : v.title = w.title => v = w
        /\ \A v \in uresult : \A w \in Range(videos) :
              (w.title = v.title /\ w # v) =>
                  /\ video_size(v) # Missing
                  /\ video_size(w) # Missing
                  /\ video_size(w) <= video_size(v)

\* Two descriptors of one title and different sizes were given, the smaller
\* one last, and the call returned.
C1_Witness ==
    /\ upc = "done"
    /\ pass = 1
    /\ Len(videos) = 3
    /\ videos[1] = V2 /\ videos[2] = V4 /\ videos[3] = V1
    /\ fsize[V2.name] = 20 /\ fsize[V1.name] = 10
    /\ uresult = {V2, V4}

\* C7: applying unique_videos to its own result, iterated in any order,
\* returns the same set, one entry per title, and never raises.
C7_UniqueIdempotent ==
    (pass = 2) =>
        /\ upc # "raised"
        /\ (upc = "done") =>
              /\ uresult = first
              /\ \A v, w \in uresult : v.title = w.title => v = w

\* The second application returned a result of three titles.
C7_Witness ==
    /\ pass = 2
    /\ upc = "done"
    /\ Cardinality(first) = 3
    /\ uresult = first

\* C15: if the file-size lookup of a descriptor of the input fails,
\* unique_videos fails as a whole and returns no set: it never returns when a
\* descriptor it had to compare, one that shares its title with another
\* position of the input, has no file, and nothing is returned once it raised.
C15_SizeLookupFailureFailsWhole ==
    /\ (upc = "done") =>
          \A i, j \in DOMAIN videos :
              (i # j /\ videos[i].title = videos[j].title) =>
                  fsize[videos[i].name] # Missing
    /\ (upc = "raised") =>
          /\ uresult = {}
          /\ \E i, j \in DOMAIN videos :
                /\ i # j
                /\ videos[i].title = videos[j].title
                /\ fsize[videos[i].name] = Missing

\* The file of the last of three descriptors is gone and the first one has
\* its title: the call raised at the third descriptor.
C15_Witness ==
    /\ upc = "raised"
    /\ Len(videos) = 3
    /\ videos[1] = V1 /\ videos[2] = V4 /\ videos[3] = V2
    /\ fsize[V1.name] = 10 /\ fsize[V4.name] = 10
    /\ fsize[V2.name] = Missing
    /\ ui = 3
    /\ uresult = {}

\* C18: when two descriptors of one title have equal file size, the one kept
\* is the one that occurs later in the input sequence.
C18_TieKeepsLater ==
    (upc = "done") =>
        \A v \in uresult : \A i \in DOMAIN videos :
            (/\ videos[i].title = v.title
             /\ videos[i] # v
             /\ video_size(videos[i]) = video_size(v)) =>
                \E j \in DOMAIN videos : j > i /\ videos[j] = v

\* Two descriptors of one title and one size were given and the call kept
\* the second.
C18_Witness ==
    /\ upc = "done"
    /\ pass = 1
    /\ videos = <<V1, V2>>
    /\ fsize[V1.name] = 20 /\ fsize[V2.name] = 20
    /\ uresult = {V2}

----------------------------------------------------------------------------
(* get_videos: the scan cache                                               *)
(*                                                                          *)
(* A directory is its absolute path, a string: the sequence of its          *)
(* characters' code points (47 is "/", 32 is " ", 97 is "a", 98 is "b").     *)

DirA == <<47, 97>>                    \* "/a"
DirB == <<47, 98>>                    \* "/b"
DirAB == <<47, 97, 32, 47, 98>>       \* "/a /b", one directory
Dirs == {DirA, DirB, DirAB}

\* The directory lists get_videos is called with: one or two directories.
DirLists == UNION {[1..k -> Dirs] : k \in 1..2}

\* The calls of get_videos in one behaviour.
MaxCalls == 2

\* The video files below each directory.
Under(d) ==
    CASE d = DirA -> {V1}
      [] d = DirB -> {V2, V3}
      [] d = DirAB -> {V4}

\* What scan_videos(d) can give: it raises, or lists files below d.
ScanOutcomes(d) ==
    {[raises |-> TRUE, found |-> <<>>]}
        \cup {[raises |-> FALSE, found |-> s] : s \in {<<>>} \cup Orders(Under(d))}

\* s < t for Python strings: by code point, a proper prefix first
RECURSIVE StrLess(_, _)
StrLess(s, t) ==
    IF t = <<>> THEN FALSE
    ELSE IF s = <<>> THEN TRUE
    ELSE IF Head(s) = Head(t) THEN StrLess(Tail(s), Tail(t))
    ELSE Head(s) < Head(t)

\* x put into the sorted list s, after the elements that are not greater
RECURSIVE SortedInsert(_, _)
SortedInsert(s, x) ==
    IF s = <<>> THEN <<x>>
    ELSE IF StrLess(x, Head(s)) THEN <<x>> \o s
    ELSE <<Head(s)>> \o SortedInsert(Tail(s), x)

\* sorted(strings)
RECURSIVE Sorted(_)
Sorted(s) ==
    IF s = <<>> THEN <<>>
    ELSE SortedInsert(Sorted(SubSeq(s, 1, Len(s) - 1)), s[Len(s)])

\* ' '.join(strings)
RECURSIVE JoinSpace(_)
JoinSpace(s) ==
    IF s = <<>> THEN <<>>
    ELSE IF Len(s) = 1 THEN s[1]
    ELSE s[1] \o <<32>> \o JoinSpace(Tail(s))

\* videos_key = ' '.join(sorted(map(str, dirs)))
VideosKey(dirs) == JoinSpace(Sorted(dirs))

\* chain.from_iterable(lists)
RECURSIVE Chain(_)
Chain(lists) ==
    IF lists = <<>> THEN <<>> ELSE Head(lists) \o Chain(Tail(lists))

\* unique_videos(s) from the i-th element on, the dict so far being d: whether
\* it raises, and the dict at the end of the loop
RECURSIVE UniqueFrom(_, _, _)
UniqueFrom(d, s, i) ==
    IF i > Len(s) THEN [raises |-> FALSE, unique |-> d]
    ELSE IF UniqueLoopRaises(d, s[i]) THEN [raises |-> TRUE, unique |-> d]
    ELSE UniqueFrom(UniqueLoopBody(d, s[i]), s, i + 1)

\* unique_videos(s), called by get_videos
UniqueVideos(s) == UniqueFrom(<<>>, s, 1)

\* db.get(videos_key), None read as the empty set: both are false in
\* "if videos"
CachedVideos(key) ==
    IF key \in DOMAIN videosStore THEN videosStore[key] ELSE {}

\* A scan of each distinct directory only: the first occurrences.
ScanTasksDistinct(dirs) ==
    IF Len(dirs) = 2 /\ dirs[1] = dirs[2] THEN <<dirs[1]>> ELSE dirs

\* thread_map(scan_videos, dirs): one call of scan_videos for each element
\* of dirs
ScanTasks(dirs) == dirs

\* A failed call that leaves an empty entry under its key.
StoreOnFailureEmptied(key) == DictSet(videosStore, key, {})

\* The store after thread_map or unique_videos raised: the write of
\* db[videos_key] is not reached
StoreOnFailure(key) == videosStore

\* get_videos(dirs), as a whole
GetVideos(dirs) ==
    LET key == VideosKey(dirs)
        cached == CachedVideos(key)
        scanned == ScanTasks(dirs)
        scans == [i \in 1..Len(scanned) |-> scanResult[scanned[i]]]
        scanRaises == \E i \in 1..Len(scanned) : scans[i].raises
        found == Chain([i \in 1..Len(scanned) |-> scans[i].found])
        u == UniqueVideos(found)
    IN  /\ Len(history) < MaxCalls
        /\ IF cached # {}
           THEN \* if videos: return videos
                /\ history' = Append(history,
                       [dirs |-> dirs, key |-> key, outcome |-> "hit",
                        result |-> cached, scans |-> 0, scanned |-> <<>>,
                        owner |-> storeOwner[key]])
                /\ UNCHANGED <<videosStore, storeOwner>>
           ELSE IF scanRaises \/ u.raises
           THEN \* thread_map or unique_videos raises
                /\ history' = Append(history,
                       [dirs |-> dirs, key |-> key, outcome |-> "raised",
                        result |-> {}, scans |-> Len(scanned),
                        scanned |-> scanned, owner |-> <<>>])
                /\ videosStore' = StoreOnFailure(key)
                /\ UNCHANGED storeOwner
           ELSE \* db[videos_key] = videos; return videos
                /\ videosStore' = DictSet(videosStore, key, Range(u.unique))
                /\ storeOwner' = DictSet(storeOwner, key, dirs)
                /\ history' = Append(history,
                       [dirs |-> dirs, key |-> key, outcome |-> "miss",
                        result |-> Range(u.unique), scans |-> Len(scanned),
                        scanned |-> scanned, owner |-> dirs])
        /\ UNCHANGED <<fsize, scanResult, dedupVars, metaVars, reportVars>>

\* The files of the two same-titled videos V1 and V2 have any size or are
\* gone; the filesystem does not change between the calls.
InitScan ==
    /\ fsize \in {f \in [Names -> Sizes \cup {Missing}] :
                     f[V3.name] = 10 /\ f[V4.name] = 10}
    /\ scanResult \in {f \in [Dirs -> UNION {ScanOutcomes(d) : d \in Dirs}] :
                          \A d \in Dirs : f[d] \in ScanOutcomes(d)}
    /\ videosStore = <<>>
    /\ storeOwner = <<>>
    /\ history = <<>>
    /\ DedupIdle
    /\ MetaIdle
    /\ ReportIdle

NextScan == \E dirs \in DirLists : GetVideos(dirs)

SpecScan == InitScan /\ [][NextScan]_vars

----------------------------------------------------------------------------
(* Claims about get_videos                                                  *)

\* t is s in another order (or the same).
IsPermutation(s, t) ==
    /\ Len(s) = Len(t)
    /\ \A d \in Range(s) \cup Range(t) :
          Cardinality({i \in DOMAIN s : s[i] = d})
              = Cardinality({i \in DOMAIN t : t[i] = d})

\* C2: a call of get_videos for the directory list of an earlier call that
\* returned, in any order, returns the earlier call's VideoSet and does not
\* invoke scan_videos.
C2_SecondCallFromCache ==
    \A i, j \in DOMAIN history :
        (i < j
            /\ IsPermutation(history[i].dirs, history[j].dirs)
            /\ history[i].outcome # "raised") =>
                /\ history[j].outcome = "hit"
                /\ history[j].scans = 0
                /\ history[j].result = history[i].result

\* C8: directory lists that are not the same set of directories have
\* different keys, and a call is never served the entry that a call for
\* another set of directories stored.
C8_DistinctListsDistinctEntries ==
    /\ \A i, j \in DOMAIN history :
          Range(history[i].dirs) # Range(history[j].dirs) =>
              history[i].key # history[j].key
    /\ \A j \in DOMAIN history :
          history[j].outcome = "hit" =>
              Range(history[j].owner) = Range(history[j].dirs)

\* The descriptors the scans of dirs found, in the order of dirs.
FoundBy(dirs) == Chain([i \in DOMAIN dirs |-> scanResult[dirs[i]].found])

\* C14: on a miss get_videos calls scan_videos exactly once for each
\* directory of the list, returns the union of the scan results with one
\* descriptor for each title, and stores it under the key of the list: when
\* the call has returned, the store holds the returned set at the key.
C14_MissScansDedupsStores ==
    \A k \in DOMAIN history :
        LET h == history[k]
            found == Range(FoundBy(h.dirs))
        IN  (h.outcome = "miss") =>
                /\ IsPermutation(h.scanned, h.dirs)
                /\ h.scans = Len(h.dirs)
                /\ h.result \subseteq found
                /\ TitlesOf(h.result) = TitlesOf(found)
                /\ \A v, w \in h.result : v.title = w.title => v = w
                /\ h.key = JoinSpace(Sorted(h.dirs))
                /\ (k = Len(history)) =>
                      /\ h.key \in DOMAIN videosStore
                      /\ videosStore[h.key] = h.result

\* The call for ["/b", "/a"] missed, scanned both, dropped the smaller of the
\* two descriptors of one title and stored the rest under "/a /b".
C14_Witness ==
    /\ Len(history) = 1
    /\ history[1].outcome = "miss"
    /\ history[1].dirs = <<DirB, DirA>>
    /\ history[1].scanned = <<DirB, DirA>>
    /\ Len(FoundBy(history[1].dirs)) = 3
    /\ fsize[V1.name] = 20 /\ fsize[V2.name] = 10
    /\ history[1].result = {V1, V3}
    /\ videosStore[DirAB] = {V1, V3}

\* The dedup of what the scans of dirs found fails: a descriptor that shares
\* its title with another one found has no file.
DedupFails(dirs) ==
    LET found == FoundBy(dirs)
    IN  \E i, j \in DOMAIN found :
            /\ i # j
            /\ found[i].title = found[j].title
            /\ fsize[found[i].name] = Missing

\* C16: if a scan task or the dedup fails in a call of get_videos that
\* missed, the call raises and leaves the scan-cache store as it was: no
\* entry is written under its key and no other entry changes.
C16_FailureLeavesStoreUnchanged ==
    [][Len(history') = Len(history) + 1 =>
          LET h == history'[Len(history')]
          IN  /\ (/\ h.outcome # "hit"
                  /\ \/ \E d \in Range(h.dirs) : scanResult[d].raises
                     \/ DedupFails(h.dirs)) => h.outcome = "raised"
              /\ (h.outcome = "raised") =>
                    /\ h.result = {}
                    /\ videosStore' = videosStore]_vars

\* A first call stored its result; in the second one every scan returned and
\* the dedup failed: the store holds the first call's entry and nothing
\* under the key of the second.
C16_Witness ==
    /\ Len(history) = 2
    /\ history[1].outcome = "miss"
    /\ history[1].result # {}
    /\ history[2].outcome = "raised"
    /\ \A d \in Range(history[2].dirs) : ~scanResult[d].raises
    /\ DedupFails(history[2].dirs)
    /\ DOMAIN videosStore = {history[1].key}
    /\ videosStore[history[1].key] = history[1].result
    /\ history[2].key # history[1].key

----------------------------------------------------------------------------
(* get_imdb_metadata and search_movie: the batch lookup over a thread pool  *)
(* and the metadata cache behind meta_cache_lock                            *)
(*                                                                          *)
(* A value that is a movie or None is a set: {} for None, {movie} for a     *)
(* movie; "if meta" is meta # {}.                                           *)

\* The movies of the provider; db.get_movie(id) gives the movie of that id.
\* A movie is true in "if meta" and "if result": it has a title, which
\* print_metadata reads with meta['title'].
MovieIDs == {1, 2}
Movie(id) == [movieID |-> id]
Movies == {Movie(id) : id \in MovieIDs}

\* POOL_SIZE: the worker threads of the pool
PoolSize == 2

\* str(video.year)
YearStr(year) == CASE year = 2010 -> "2010"

\* year = str(video.year) if video.year else ''
\* title = f'{video.title} {year}'.strip()
\* (strip removes the space that an empty year leaves at the end)
Query(video) ==
    IF video.year # 0
    THEN video.title \o " " \o YearStr(video.year)
    ELSE video.title

\* The VideoSets get_imdb_metadata is given, each in every iteration order:
\* at most one video per title.
Batches == UNION {Orders(S) : S \in SUBSET {V1, V3, V4}}

Queries == {Query(v) : v \in Catalogue}

\* A _search_movie call that no worker has taken yet.
NewTask ==
    [pc |-> "queued",
     hit |-> 0,               \* search_result[0].movieID
     movie |-> {},            \* movie
     result |-> {},           \* what search_movie returned
     calls |-> 0,             \* history: its calls of the provider
     saw |-> {},              \* history: the movie saved under its title
                              \*   when it read the store
     afterFail |-> FALSE,     \* history: it read the store after a lookup
                              \*   of its title failed and none was saved
     provFail |-> "none",     \* history: how the provider failed it
     storeErr |-> FALSE,      \* history: the store raised in it
     wrote |-> FALSE]         \* history: it wrote the store

Title(t) == Query(batch[t])

Working(t) ==
    tasks[t].pc \in {"get_lock", "get_cs", "search", "fetch", "save_lock", "save_cs"}

Finished(t) == tasks[t].pc \in {"done", "raised"}

metaRest == <<fsize, dedupVars, scanVars, reportVars>>

\* A worker of the pool takes the next call of the map: calls are taken in
\* the order of the iterable, by at most POOL_SIZE workers at a time.
TakeTask(t) ==
    /\ gpc = "map"
    /\ tasks[t].pc = "queued"
    /\ \A u \in 1..(t - 1) : tasks[u].pc # "queued"
    /\ Cardinality({u \in DOMAIN tasks : Working(u)}) < PoolSize
    /\ tasks' = [tasks EXCEPT ![t].pc = "get_lock"]
    /\ UNCHANGED <<batch, lock, metaStore, order, gpc, gi, mapped, yielded,
                   saved, failedQ, fetched, metaRest>>

\* A lock that anyone can take at any time.
LockFreeAlways == TRUE

\* meta_cache_lock = Lock(): "with meta_cache_lock" enters only when no
\* thread holds it
LockFree == lock = 0

\* A with statement that leaves the lock with the thread.
LockKeptAfterWith(t) == t

\* The end of a "with meta_cache_lock" block that ran to its end: release
LockAfterWith(t) == 0

\* A with statement that keeps the lock when its block raises.
LockKeptAfterRaise(t) == t

\* A "with meta_cache_lock" block left by an exception: release
LockAfterRaise(t) == 0

\* get_cached_meta: with meta_cache_lock (acquire)
AcquireGet(t) ==
    /\ tasks[t].pc = "get_lock"
    /\ LockFree
    /\ lock' = t
    /\ tasks' = [tasks EXCEPT ![t].pc = "get_cs"]
    /\ UNCHANGED <<batch, metaStore, order, gpc, gi, mapped, yielded,
                   saved, failedQ, fetched, metaRest>>

\* A lookup that finds nothing, whatever the store holds.
CachedMetaNever(title) == {}

\* db.get(str(title))
CachedMeta(title) ==
    IF title \in DOMAIN metaStore THEN {metaStore[title]} ELSE {}

\* get_cached_meta reads the store and releases the lock; search_movie
\* returns the movie if there is one (if meta: return meta).
GetCachedMeta(t) ==
    /\ tasks[t].pc = "get_cs"
    /\ lock = t
    /\ lock' = LockAfterWith(t)
    /\ LET meta == CachedMeta(Title(t))
           seen == IF Title(t) \in DOMAIN saved THEN {saved[Title(t)]} ELSE {}
           after == Title(t) \in failedQ /\ Title(t) \notin DOMAIN saved
       IN  IF meta # {}
           THEN /\ tasks' = [tasks EXCEPT ![t].pc = "done", ![t].result = meta,
                                          ![t].saw = seen, ![t].afterFail = after]
                /\ order' = Append(order, t)
           ELSE /\ tasks' = [tasks EXCEPT ![t].pc = "search",
                                          ![t].saw = seen, ![t].afterFail = after]
                /\ order' = order
    /\ UNCHANGED <<batch, metaStore, gpc, gi, mapped, yielded,
                   saved, failedQ, fetched, metaRest>>

\* shelve.open or db.get raises in get_cached_meta: the with statement
\* releases the lock and the exception leaves search_movie.
GetCachedMetaRaises(t) ==
    /\ tasks[t].pc = "get_cs"
    /\ lock = t
    /\ lock' = LockAfterRaise(t)
    /\ tasks' = [tasks EXCEPT ![t].pc = "raised", ![t].storeErr = TRUE]
    /\ order' = Append(order, t)
    /\ UNCHANGED <<batch, metaStore, gpc, gi, mapped, yielded,
                   saved, failedQ, fetched, metaRest>>

\* A provider exception that leaves search_movie.
ProviderExceptionPropagates == "raised"

\* except Exception: return None
ProviderExceptionPc == "done"

\* A failed lookup that writes an entry without a movie under the title.
StoreAfterFailureNegative(title) == DictSet(metaStore, title, Movie(0))

\* The store after a lookup that failed: return None, nothing is saved.
StoreAfterFailure(title) == metaStore

\* search_movie returns None: the provider raised or found nothing.
LookupFails(t, how, pc) ==
    /\ tasks' = [tasks EXCEPT ![t].pc = pc, ![t].result = {},
                              ![t].calls = @ + 1, ![t].provFail = how]
    /\ metaStore' = StoreAfterFailure(Title(t))
    /\ failedQ' = failedQ \cup {Title(t)}
    /\ order' = Append(order, t)
    /\ UNCHANGED <<batch, lock, gpc, gi, mapped, yielded, saved, fetched, metaRest>>

\* db.search_movie(title) raises
SearchRaises(t) ==
    /\ tasks[t].pc = "search"
    /\ LookupFails(t, "search_raised", ProviderExceptionPc)

\* db.search_movie(title) gives an empty list: if not search_result
SearchEmpty(t) ==
    /\ tasks[t].pc = "search"
    /\ LookupFails(t, "no_result", "done")

\* db.search_movie(title) gives a list; meta = search_result[0]
SearchHit(t, id) ==
    /\ tasks[t].pc = "search"
    /\ tasks' = [tasks EXCEPT ![t].pc = "fetch", ![t].hit = id, ![t].calls = @ + 1]
    /\ UNCHANGED <<batch, lock, metaStore, order, gpc, gi, mapped, yielded,
                   saved, failedQ, fetched, metaRest>>

\* db.get_movie(meta.movieID) raises
GetMovieRaises(t) ==
    /\ tasks[t].pc = "fetch"
    /\ LookupFails(t, "fetch_raised", ProviderExceptionPc)

\* movie = db.get_movie(meta.movieID)
GetMovie(t) ==
    /\ tasks[t].pc = "fetch"
    /\ tasks' = [tasks EXCEPT ![t].pc = "save_lock",
                              ![t].movie = {Movie(tasks[t].hit)},
                              ![t].calls = @ + 1]
    /\ fetched' = fetched \cup {<<Title(t), Movie(tasks[t].hit)>>}
    /\ UNCHANGED <<batch, lock, metaStore, order, gpc, gi, mapped, yielded,
                   saved, failedQ, metaRest>>

\* A save under the title of the video instead of the query.
SaveKeyVideoTitle(t) == batch[t].title

\* save_cached_meta(title, movie): db[str(title)], the title search_movie
\* was called with
SaveKey(t) == Title(t)

\* save_cached_meta: with meta_cache_lock (acquire)
AcquireSave(t) ==
    /\ tasks[t].pc = "save_lock"
    /\ LockFree
    /\ lock' = t
    /\ tasks' = [tasks EXCEPT ![t].pc = "save_cs"]
    /\ UNCHANGED <<batch, metaStore, order, gpc, gi, mapped, yielded,
                   saved, failedQ, fetched, metaRest>>

\* save_cached_meta writes db[title] = meta and releases the lock;
\* search_movie returns the movie.
SaveCachedMeta(t) ==
    /\ tasks[t].pc = "save_cs"
    /\ lock = t
    /\ lock' = LockAfterWith(t)
    /\ \E movie \in tasks[t].movie :
          /\ metaStore' = DictSet(metaStore, SaveKey(t), movie)
          /\ saved' = DictSet(saved, Title(t), movie)
    /\ tasks' = [tasks EXCEPT ![t].pc = "done", ![t].result = tasks[t].movie,
                              ![t].wrote = TRUE]
    /\ order' = Append(order, t)
    /\ UNCHANGED <<batch, gpc, gi, mapped, yielded, failedQ, fetched, metaRest>>

\* shelve.open or the write raises in save_cached_meta: the with statement
\* releases the lock and the exception leaves search_movie.
SaveCachedMetaRaises(t) ==
    /\ tasks[t].pc = "save_cs"
    /\ lock = t
    /\ lock' = LockAfterRaise(t)
    /\ tasks' = [tasks EXCEPT ![t].pc = "raised", ![t].storeErr = TRUE]
    /\ order' = Append(order, t)
    /\ UNCHANGED <<batch, metaStore, gpc, gi, mapped, yielded,
                   saved, failedQ, fetched, metaRest>>

\* The results in the order the calls completed.
ThreadMapByCompletion == [k \in DOMAIN order |-> tasks[order[k]].result]

\* ThreadPool(POOL_SIZE).map(function, iterable): the results in the order
\* of the iterable
ThreadMapResult == [t \in DOMAIN tasks |-> tasks[t].result]

\* thread_map returns once every call has completed.
ThreadMapReturns ==
    /\ gpc = "map"
    /\ \A t \in DOMAIN tasks : tasks[t].pc = "done"
    /\ mapped' = ThreadMapResult
    /\ gpc' = "zip"
    /\ UNCHANGED <<batch, tasks, lock, metaStore, order, gi, yielded,
                   saved, failedQ, fetched, metaRest>>

\* thread_map raises what a call raised, once every call has completed:
\* get_imdb_metadata yields nothing.
ThreadMapRaises ==
    /\ gpc = "map"
    /\ \A t \in DOMAIN tasks : Finished(t)
    /\ \E t \in DOMAIN tasks : tasks[t].pc = "raised"
    /\ gpc' = "aborted"
    /\ UNCHANGED <<batch, tasks, lock, metaStore, order, gi, mapped, yielded,
                   saved, failedQ, fetched, metaRest>>

\* for video, result in zip(videos, ...): if result: yield video, result
ZipNext ==
    /\ gpc = "zip"
    /\ gi <= Len(batch)
    /\ gi <= Len(mapped)
    /\ yielded' = IF mapped[gi] # {}
                  THEN Append(yielded, [video |-> batch[gi], result |-> mapped[gi]])
                  ELSE yielded
    /\ gi' = gi + 1
    /\ UNCHANGED <<batch, tasks, lock, metaStore, order, gpc, mapped,
                   saved, failedQ, fetched, metaRest>>

\* The zip is exhausted: the generator ends.
ZipEnds ==
    /\ gpc = "zip"
    /\ gi > Len(batch) \/ gi > Len(mapped)
    /\ gpc' = "done"
    /\ UNCHANGED <<batch, tasks, lock, metaStore, order, gi, mapped, yielded,
                   saved, failedQ, fetched, metaRest>>

\* The store holds what earlier runs saved: any movie under any title.
InitMeta ==
    /\ batch \in Batches
    /\ tasks = [t \in DOMAIN batch |-> NewTask]
    /\ lock = 0
    /\ metaStore \in UNION {[Q -> Movies] : Q \in SUBSET Queries}
    /\ order = <<>>
    /\ gpc = "map"
    /\ gi = 1
    /\ mapped = <<>>
    /\ yielded = <<>>
    /\ saved = metaStore
    /\ failedQ = {}
    /\ fetched = {<<q, metaStore[q]>> : q \in DOMAIN metaStore}
    /\ fsize = <<>>
    /\ DedupIdle
    /\ ScanIdle
    /\ ReportIdle

NextMeta ==
    \/ \E t \in DOMAIN tasks : TakeTask(t)
    \/ \E t \in DOMAIN tasks : AcquireGet(t)
    \/ \E t \in DOMAIN tasks : GetCachedMeta(t)
    \/ \E t \in DOMAIN tasks : GetCachedMetaRaises(t)
    \/ \E t \in DOMAIN tasks : SearchRaises(t)
    \/ \E t \in DOMAIN tasks : SearchEmpty(t)
    \/ \E t \in DOMAIN tasks : \E id \in MovieIDs : SearchHit(t, id)
    \/ \E t \in DOMAIN tasks : GetMovieRaises(t)
    \/ \E t \in DOMAIN tasks : GetMovie(t)
    \/ \E t \in DOMAIN tasks : AcquireSave(t)
    \/ \E t \in DOMAIN tasks : SaveCachedMeta(t)
    \/ \E t \in DOMAIN tasks : SaveCachedMetaRaises(t)
    \/ ThreadMapReturns
    \/ ThreadMapRaises
    \/ ZipNext
    \/ ZipEnds

SpecMeta == InitMeta /\ [][NextMeta]_vars

----------------------------------------------------------------------------
(* Claims about search_movie and get_imdb_metadata                          *)

\* C3: a call of search_movie that reads the store after a movie was saved
\* under its title returns that movie (the one last saved) and never calls
\* the provider.
C3_SavedMovieReturnedWithoutProvider ==
    \A t \in DOMAIN tasks :
        tasks[t].saw # {} =>
            /\ tasks[t].pc = "done"
            /\ tasks[t].result = tasks[t].saw
            /\ tasks[t].calls = 0

\* One call fetched a movie and saved it in this run, and a later call for
\* the same title returned it.
C3_Witness ==
    \E t, u \in DOMAIN tasks :
        /\ t # u
        /\ Title(t) = Title(u)
        /\ tasks[u].wrote
        /\ tasks[t].saw # {}
        /\ tasks[t].pc = "done"
        /\ tasks[t].result = tasks[u].result
        /\ tasks[t].calls = 0

\* C4: a call of search_movie that the provider fails (the search raises or
\* finds nothing, or the detail fetch raises) returns None and writes
\* nothing: the store changes only by the save of a fetched movie; and a call
\* that reads the store after such a failure, no movie being saved for the
\* title, calls the provider again.
C4_FailureNotCached ==
    /\ \A t \in DOMAIN tasks :
          tasks[t].provFail # "none" =>
              /\ tasks[t].pc = "done"
              /\ tasks[t].result = {}
              /\ ~tasks[t].wrote
    /\ metaStore = saved
    /\ \A t \in DOMAIN tasks :
          tasks[t].afterFail =>
              \/ tasks[t].pc \in {"search", "fetch", "save_lock", "save_cs"}
              \/ tasks[t].calls >= 1

\* A lookup failed and returned None, and the next call for the same title
\* has called the provider.
C4_Witness ==
    \E t, u \in DOMAIN tasks :
        /\ t # u
        /\ Title(t) = Title(u)
        /\ tasks[t].provFail = "no_result"
        /\ tasks[t].pc = "done"
        /\ tasks[u].afterFail
        /\ tasks[u].calls >= 1
        /\ Title(t) \notin DOMAIN metaStore

\* C5: a provider exception in one call is turned into None for that call:
\* only an exception of the store leaves search_movie and aborts the batch,
\* thread_map returns only when every call has completed, and when the
\* generator ends every video whose call found a movie has been yielded with
\* it.
C5_ProviderExceptionKeepsBatch ==
    /\ \A t \in DOMAIN tasks :
          tasks[t].provFail # "none" => (tasks[t].pc = "done" /\ tasks[t].result = {})
    /\ \A t \in DOMAIN tasks : tasks[t].pc = "raised" => tasks[t].storeErr
    /\ gpc = "aborted" => \E t \in DOMAIN tasks : tasks[t].storeErr
    /\ gpc \in {"zip", "done"} => \A t \in DOMAIN tasks : tasks[t].pc = "done"
    /\ gpc = "done" =>
          \A t \in DOMAIN tasks :
              tasks[t].result # {} =>
                  \E k \in DOMAIN yielded :
                      yielded[k] = [video |-> batch[t], result |-> tasks[t].result]

\* The provider raised in the search of one title and in the detail fetch of
\* another, and the third title was yielded with its movie.
C5_Witness ==
    /\ gpc = "done"
    /\ Len(batch) = 3
    /\ \E t, u, w \in DOMAIN tasks :
          /\ tasks[t].provFail = "search_raised"
          /\ tasks[u].provFail = "fetch_raised"
          /\ tasks[w].wrote
          /\ yielded = <<[video |-> batch[w], result |-> tasks[w].result]>>

\* The pairs of the first n videos, in their order: each video whose own
\* call returned a movie, with that movie.
RECURSIVE PairsUpTo(_)
PairsUpTo(n) ==
    IF n = 0 THEN <<>>
    ELSE IF tasks[n].result # {}
         THEN Append(PairsUpTo(n - 1), [video |-> batch[n], result |-> tasks[n].result])
         ELSE PairsUpTo(n - 1)

\* C6: whatever the order the calls complete in, the pairs yielded are those
\* of the videos the zip has passed, in the order of the videos, each video
\* with the result its own call returned: a movie that was fetched, or read
\* from the store, for that video's title.
C6_PairsAlignedInInputOrder ==
    gpc \in {"zip", "done"} =>
        /\ yielded = PairsUpTo(gi - 1)
        /\ \A k \in DOMAIN yielded :
              \A movie \in yielded[k].result :
                  <<Query(yielded[k].video), movie>> \in fetched

\* Three calls completed with the first one last, two of them with different
\* movies, and the generator ended.
C6_Witness ==
    /\ gpc = "done"
    /\ order = <<2, 3, 1>>
    /\ Len(yielded) >= 2
    /\ yielded[1].result # yielded[2].result
    /\ yielded[1].video = batch[1]

----------------------------------------------------------------------------
(* The report: the driver's sort by rating and print_metadata               *)
(*                                                                          *)
(* A movie's field is a set: {} when the movie lacks the key, {value} when  *)
(* it has it; meta.get(key) is None for {}. The plot texts are strings as   *)
(* sequences of code points, so that a slice has a length; the other texts  *)
(* are strings.                                                             *)

\* The most entries in a list that the sort is given.
MaxEntries == 3

\* [:300]
SummaryLen == 300

Opt(S) == {{}} \cup {{x} : x \in S}

ShortText == <<112, 108, 111, 116>>
LongText == [i \in 1..(SummaryLen + 2) |-> 32 + (i % 90)]

\* The movies print_metadata is given: any subset of the keys it reads.
ReportMovies ==
    [movieID : {1},
     title : Opt({"Foo"}),
     year : Opt({1999}),
     rating : Opt({6, 8}),
     directors : Opt({<<[name |-> "Ann"], [name |-> "Bob"]>>}),
     countries : Opt({<<"ES", "US">>}),
     plotOutline : Opt({<<>>, ShortText}),
     plot : Opt({ShortText, LongText}),
     coverUrl : Opt({"http://img"})]

\* The movies the sort is given: they differ in their rating only, and in
\* their id.
RatedMovies ==
    [movieID : {1, 2},
     title : {{"Foo"}},
     year : {{1999}},
     rating : Opt({0, 6, 8}),
     directors : {{}},
     countries : {{}},
     plotOutline : {{}},
     plot : {{}},
     coverUrl : {{}}]

\* The lists the driver builds: one entry with any movie, or up to MaxEntries
\* entries that differ in rating.
ReportInputs ==
    {<<>>}
        \cup {<<[video |-> v, meta |-> m]>> : v \in {V1, V3}, m \in ReportMovies}
        \cup SeqsUpTo({[video |-> V1, meta |-> m] : m \in RatedMovies}, MaxEntries)

\* key=lambda e: float(e[1].get('rating') or 0)
RatingKey(e) ==
    IF e.meta.rating = {} THEN 0 ELSE CHOOSE r \in e.meta.rating : TRUE

\* The entry put into an ascending list.
RECURSIVE InsertAscending(_, _)
InsertAscending(s, e) ==
    IF s = <<>> THEN <<e>>
    ELSE IF RatingKey(e) < RatingKey(Head(s)) THEN <<e>> \o s
    ELSE <<Head(s)>> \o InsertAscending(Tail(s), e)

\* The entry put into the list sorted so far, after the entries whose key is
\* not smaller: sorted is stable, and so it is with reverse=True.
RECURSIVE InsertByRating(_, _)
InsertByRating(s, e) ==
    IF s = <<>> THEN <<e>>
    ELSE IF RatingKey(e) > RatingKey(Head(s)) THEN <<e>> \o s
    ELSE <<Head(s)>> \o InsertByRating(Tail(s), e)

\* sorted(entries, key=..., reverse=True)
RECURSIVE SortedByRating(_)
SortedByRating(s) ==
    IF s = <<>> THEN <<>>
    ELSE InsertByRating(SortedByRating(SubSeq(s, 1, Len(s) - 1)), s[Len(s)])

\* metadata = sorted(get_imdb_metadata(videos), ...)
SortMetadata ==
    /\ rpc = "fetched"
    /\ metadata' = SortedByRating(metadata)
    /\ rpc' = "sorted"
    /\ UNCHANGED <<unsorted, table, fsize, dedupVars, scanVars, metaVars>>

\* str of the numbers the model uses
NumStr(n) ==
    CASE n = 0 -> "0"
      [] n = 1 -> "1"
      [] n = 2 -> "2"
      [] n = 6 -> "6"
      [] n = 8 -> "8"
      [] n = 1999 -> "1999"
      [] n = 2010 -> "2010"

\* ' '.join(strings)
RECURSIVE JoinWords(_)
JoinWords(s) ==
    IF s = <<>> THEN ""
    ELSE IF Len(s) = 1 THEN s[1]
    ELSE s[1] \o " " \o JoinWords(Tail(s))

\* A slice that is one character too long.
SliceOneMore(text, n) ==
    SubSeq(text, 1, IF Len(text) < n + 1 THEN Len(text) ELSE n + 1)

\* text[:n]
Slice(text, n) == SubSeq(text, 1, IF Len(text) < n THEN Len(text) ELSE n)

\* tabulate's cell for a value: the empty string for None (missingval)
Rendered(value) ==
    IF value = {} THEN "" ELSE NumStr(CHOOSE x \in value : TRUE)

\* 'year': meta.get('year') or video.year or ''
YearCell(video, meta) ==
    IF meta.year # {} /\ meta.year # {0}
    THEN NumStr(CHOOSE y \in meta.year : TRUE)
    ELSE IF video.year # 0 THEN NumStr(video.year) ELSE ""

\* 'summary': meta.get('plot outline') or meta.get('plot', '')[:300]
SummaryCell(meta) ==
    IF meta.plotOutline # {} /\ meta.plotOutline # {<<>>}
    THEN CHOOSE text \in meta.plotOutline : TRUE
    ELSE IF meta.plot = {} THEN <<>>
    ELSE Slice(CHOOSE text \in meta.plot : TRUE, SummaryLen)

\* The row of one entry, a cell per header.
Row(e) ==
    LET video == e.video
        meta == e.meta
        title == CHOOSE x \in meta.title : TRUE
        url == "https://www.imdb.com/title/tt" \o NumStr(meta.movieID)
        img_url == IF meta.coverUrl = {} THEN "None"
                   ELSE CHOOSE x \in meta.coverUrl : TRUE
        directors == IF meta.directors = {} THEN <<>>
                     ELSE CHOOSE x \in meta.directors : TRUE
        countries == IF meta.countries = {} THEN <<>>
                     ELSE CHOOSE x \in meta.countries : TRUE
    IN  [img_url |-> "![](" \o img_url \o ")",
         title |-> "[" \o title \o "](" \o url \o ")",
         year |-> YearCell(video, meta),
         country |-> JoinWords(countries),
         directors |-> JoinWords([k \in DOMAIN directors |-> directors[k].name]),
         rating |-> Rendered(meta.rating),
         summary |-> SummaryCell(meta),
         path |-> "[path](" \o video.name \o ")"]

\* A lookup meta['rating'] in place of meta.get('rating').
EntryRaisesOnRating(e) == e.meta.title = {} \/ e.meta.rating = {}

\* title = meta['title'] raises KeyError for a movie without a title; every
\* other key is read with meta.get.
EntryRaises(e) == e.meta.title = {}

\* print_metadata(metadata)
PrintMetadata ==
    /\ rpc = "sorted"
    /\ \A k \in DOMAIN metadata : ~EntryRaises(metadata[k])
    /\ table' = [k \in DOMAIN metadata |-> Row(metadata[k])]
    /\ rpc' = "printed"
    /\ UNCHANGED <<metadata, unsorted, fsize, dedupVars, scanVars, metaVars>>

\* print_metadata(metadata) raises while it builds the entries: nothing is
\* printed.
PrintMetadataRaises ==
    /\ rpc = "sorted"
    /\ \E k \in DOMAIN metadata : EntryRaises(metadata[k])
    /\ rpc' = "raised"
    /\ UNCHANGED <<metadata, unsorted, table, fsize, dedupVars, scanVars, metaVars>>

InitReport ==
    /\ metadata \in ReportInputs
    /\ unsorted = metadata
    /\ rpc = "fetched"
    /\ table = <<>>
    /\ fsize = <<>>
    /\ DedupIdle
    /\ ScanIdle
    /\ MetaIdle

NextReport ==
    \/ SortMetadata
    \/ PrintMetadata
    \/ PrintMetadataRaises

SpecReport == InitReport /\ [][NextReport]_vars

----------------------------------------------------------------------------
(* Claims about the report                                                  *)

\* C9: the sorted list holds the entries of the list it was made from, and
\* of every two consecutive entries the earlier one's rating, 0 standing for
\* a missing rating, is not smaller than the later one's.
C9_SortedByRatingDescending ==
    rpc \in {"sorted", "printed"} =>
        /\ IsPermutation(metadata, unsorted)
        /\ \A k \in 1..(Len(metadata) - 1) :
              RatingKey(metadata[k]) >= RatingKey(metadata[k + 1])

\* Three entries, the one without a rating first and the best rated last,
\* were sorted: the one without a rating is last.
C9_Witness ==
    /\ rpc = "sorted"
    /\ Len(unsorted) = 3
    /\ unsorted[1].meta.rating = {}
    /\ unsorted[2].meta.rating = {6}
    /\ unsorted[3].meta.rating = {8}
    /\ metadata[1] = unsorted[3]
    /\ metadata[3] = unsorted[1]

\* The movies of the list that have a title.
AllTitled == \A k \in DOMAIN metadata : metadata[k].meta.title # {}

\* C10 as stated: a movie with any of year, countries, directors, rating and
\* plot missing never makes print_metadata raise, and each missing field's
\* cell is the empty string.
C10_MissingFieldsRenderEmpty ==
    /\ AllTitled => rpc # "raised"
    /\ rpc = "printed" =>
          \A k \in DOMAIN table :
              LET meta == metadata[k].meta
              IN  /\ meta.year = {} => table[k].year = ""
                  /\ meta.countries = {} => table[k].country = ""
                  /\ meta.directors = {} => table[k].directors = ""
                  /\ meta.rating = {} => table[k].rating = ""
                  /\ (meta.plot = {} /\ meta.plotOutline = {}) =>
                        table[k].summary = <<>>

\* C10 as amended: a movie with any of year, countries, directors, rating and
\* plot missing never makes print_metadata raise; a missing country, directors
\* or rating is an empty cell, a missing plot with no plot outline is an empty
\* summary, and a missing year is the video's year when it has one and an
\* empty cell when it has none.
C10_MissingFieldsRenderDefault ==
    /\ AllTitled => rpc # "raised"
    /\ rpc = "printed" =>
          \A k \in DOMAIN table :
              LET meta == metadata[k].meta
                  video == metadata[k].video
              IN  /\ (meta.year = {} /\ video.year = 0) => table[k].year = ""
                  /\ (meta.year = {} /\ video.year # 0) =>
                        table[k].year = NumStr(video.year)
                  /\ meta.countries = {} => table[k].country = ""
                  /\ meta.directors = {} => table[k].directors = ""
                  /\ meta.rating = {} => table[k].rating = ""
                  /\ (meta.plot = {} /\ meta.plotOutline = {}) =>
                        table[k].summary = <<>>

\* A movie with a title and none of the optional fields, of a video without
\* a year, was printed: every one of its cells is empty.
C10_Witness ==
    /\ rpc = "printed"
    /\ Len(table) = 1
    /\ metadata[1].video.year = 0
    /\ metadata[1].meta.year = {}
    /\ metadata[1].meta.countries = {}
    /\ metadata[1].meta.directors = {}
    /\ metadata[1].meta.rating = {}
    /\ metadata[1].meta.plot = {}
    /\ metadata[1].meta.plotOutline = {}
    /\ table[1].year = ""
    /\ table[1].rating = ""
    /\ table[1].summary = <<>>

\* C11: the summary cell is the plot outline when the movie has one that is
\* not empty; otherwise it is the first 300 characters of the plot, the whole
\* plot when it is shorter; otherwise it is empty.
C11_SummaryOutlineElsePlotPrefix ==
    rpc = "printed" =>
        \A k \in DOMAIN table :
            LET meta == metadata[k].meta
                summary == table[k].summary
            IN  IF meta.plotOutline # {} /\ meta.plotOutline # {<<>>}
                THEN meta.plotOutline = {summary}
                ELSE IF meta.plot # {}
                THEN \E plot \in meta.plot :
                        /\ Len(summary) = IF Len(plot) < 300 THEN Len(plot) ELSE 300
                        /\ \A i \in 1..Len(summary) : summary[i] = plot[i]
                ELSE summary = <<>>

\* A movie with an empty plot outline and a plot of more than 300 characters
\* was printed: the summary is 300 characters long.
C11_Witness ==
    /\ rpc = "printed"
    /\ Len(table) = 1
    /\ metadata[1].meta.plotOutline = {<<>>}
    /\ metadata[1].meta.plot = {LongText}
    /\ Len(table[1].summary) = 300
    /\ table[1].summary[300] = LongText[300]

\* ---------------------------------------------------------------------
\* Claims on the lock and the metadata store

InStore(t) == tasks[t].pc \in {"get_cs", "save_cs"}

AllFinished == \A t \in DOMAIN tasks : Finished(t)

\* C12: no worker holds meta_cache_lock while it calls db.search_movie or
\* db.get_movie; a worker holds the lock only during the store read of
\* get_cached_meta and the store write of save_cached_meta.
C12_NoLockDuringProviderCalls ==
    \A t \in DOMAIN tasks :
        /\ tasks[t].pc \in {"search", "fetch"} => lock # t
        /\ lock = t => InStore(t)

\* A worker is in a provider call while another one holds the lock in the
\* store.
C12_Witness ==
    \E t, u \in DOMAIN tasks :
        /\ tasks[t].pc = "fetch"
        /\ tasks[t].calls = 1
        /\ tasks[u].pc = "get_cs"
        /\ lock = u

\* C13: at most one thread at a time has the metadata store open, and a
\* thread that has it open holds meta_cache_lock.
C13_OneThreadInStore ==
    /\ Cardinality({t \in DOMAIN tasks : InStore(t)}) <= 1
    /\ \A t \in DOMAIN tasks : InStore(t) => lock = t

\* A worker writes the store while two others wait for the lock, one to
\* read and one to write.
C13_Witness ==
    \E t, u \in DOMAIN tasks :
        /\ tasks[t].pc = "save_cs"
        /\ lock = t
        /\ tasks[u].pc \in {"get_lock", "save_lock"}

\* C17: under any interleaving of the search_movie calls the metadata store
\* only grows, no key of it is ever removed, and every key q of it maps to a
\* record that db.get_movie returned for the first search hit of q.
C17_StoreGrowsAndStaysConsistent ==
    /\ [](\A q \in DOMAIN metaStore : <<q, metaStore[q]>> \in fetched)
    /\ [][/\ DOMAIN metaStore \subseteq DOMAIN metaStore'
          /\ \A q \in DOMAIN metaStore :
                metaStore'[q] # metaStore[q] => <<q, metaStore'[q]>> \in fetched']_vars

\* Two calls with the same query fetched different movies and both wrote
\* the store, which had no entry for the query at the start.
C17_Witness ==
    \E t, u \in DOMAIN tasks :
        /\ t # u
        /\ Title(t) = Title(u)
        /\ tasks[t].wrote
        /\ tasks[u].wrote
        /\ tasks[t].movie # tasks[u].movie
        /\ tasks[t].saw = {}
        /\ tasks[u].saw = {}
        /\ metaStore[Title(t)] \in tasks[u].movie

\* The batch of concurrent search_movie calls under fair scheduling: a step
\* that can be taken is eventually taken.
SpecMetaFair == InitMeta /\ [][NextMeta]_vars /\ WF_vars(NextMeta)

\* C19: a batch of concurrent search_movie calls never deadlocks: under fair
\* scheduling every call eventually returns or raises, and the lock is free
\* once all calls have finished, a store read or write that raised included.
C19_BatchTerminatesLockFree ==
    /\ <>AllFinished
    /\ [](AllFinished => lock = 0)

\* All three calls have finished, the first one to finish was left by an
\* exception of the store, the others went through the lock after it, and
\* the lock is free.
C19_Witness ==
    /\ Len(tasks) = 3
    /\ AllFinished
    /\ Len(order) = 3
    /\ tasks[order[1]].pc = "raised"
    /\ tasks[order[1]].storeErr
    /\ tasks[order[3]].wrote
    /\ lock = 0

====
